---- MODULE Spec2Model ----
(***************************************************************************)
(* protodot: the schema symbol resolution and inclusion-graph engine of    *)
(* src/main.go (pbstate and process), as a state machine.                  *)
(*                                                                         *)
(* Names (qualified names, short names, aliases, file names, edge keys)    *)
(* are Go strings; they are modelled as sequences of one-character         *)
(* strings so that strings.HasPrefix / HasSuffix / Index / Split and the   *)
(* slicing of the code are computed character by character.                *)
(***************************************************************************)
EXTENDS Integers, Sequences, FiniteSets, TLC

(***************************************************************************)
(* Strings                                                                 *)
(***************************************************************************)
separator == <<".">>

HasPrefix(s, p) == Len(p) <= Len(s) /\ SubSeq(s, 1, Len(p)) = p

HasSuffix(s, x) == Len(x) <= Len(s) /\ SubSeq(s, Len(s) - Len(x) + 1, Len(s)) = x

\* strings.Index(s, x) >= 0
Contains(s, x) == \E k \in 0..(Len(s) - Len(x)) : SubSeq(s, k + 1, k + Len(x)) = x

\* strings.Split(s, sep) for a one-character sep
RECURSIVE SplitAcc(_, _, _, _)
SplitAcc(s, sep, k, cur) ==
    IF k > Len(s) THEN <<cur>>
    ELSE IF s[k] = sep THEN <<cur>> \o SplitAcc(s, sep, k + 1, <<>>)
    ELSE SplitAcc(s, sep, k + 1, Append(cur, s[k]))

Split(s, sep) == SplitAcc(s, sep, 1, <<>>)

Digit(d) == <<"0", "1", "2", "3", "4", "5", "6", "7", "8", "9">>[d + 1]

\* the %d of fmt.Sprintf
RECURSIVE Itoa(_)
Itoa(n) == IF n < 10 THEN <<Digit(n)>> ELSE Itoa(n \div 10) \o <<Digit(n % 10)>>

\* a Go map write m[k] = v, and the empty map
Put(m, k, v) == [x \in (DOMAIN m) \cup {k} |-> IF x = k THEN v ELSE m[x]]

EmptyMap == [x \in {} |-> 0]

(***************************************************************************)
(* The parsed declaration tree (github.com/emicklei/proto), one list of    *)
(* elements per file in the pre-order in which proto.Walk visits them.     *)
(* outer lists the enclosing messages of a nested declaration.             *)
(***************************************************************************)
Pkg(n) == [kind |-> "package", outer |-> <<>>, name |-> n, file |-> <<>>,
           fields |-> <<>>, rpcs |-> <<>>]

Imp(f) == [kind |-> "import", outer |-> <<>>, name |-> <<>>, file |-> f,
           fields |-> <<>>, rpcs |-> <<>>]

Enm(o, n) == [kind |-> "enum", outer |-> o, name |-> n, file |-> <<>>,
              fields |-> <<>>, rpcs |-> <<>>]

Msg(o, n, fs) == [kind |-> "message", outer |-> o, name |-> n, file |-> <<>>,
                  fields |-> fs, rpcs |-> <<>>]

Srv(n, rs) == [kind |-> "service", outer |-> <<>>, name |-> n, file |-> <<>>,
               fields |-> <<>>, rpcs |-> rs]

Fld(n, t) == [name |-> n, type |-> t]

Rpc(n, q, r) == [name |-> n, req |-> q, resp |-> r]

(***************************************************************************)
(* Inputs: the file systems the runs are started on.  A file that is not   *)
(* in the domain of files cannot be opened (Find fails).                   *)
(***************************************************************************)
FA == <<"A">>
FB == <<"B">>
FC == <<"C">>
FD == <<"D">>
FZ == <<"Z">>

Int32 == <<"i", "n", "t", "3", "2">>

\* the wildcard and the dependency-tree selections of process / expandSelection
SelAll == <<"*">>
SelImports == <<"i", "m", "p", "o", "r", "t", "s">>

\* nested messages p.a.F and p.a.b.F, referenced by the bare name F from several scopes
NestedFiles ==
    FA :> << Pkg(<<"p">>),
             Msg(<<>>, <<"a">>, <<>>),
             Msg(<< <<"a">> >>, <<"F">>, <<>>),
             Msg(<< <<"a">> >>, <<"b">>, <<>>),
             Msg(<< <<"a">>, <<"b">> >>, <<"F">>, <<>>),
             Msg(<< <<"a">>, <<"b">> >>, <<"H">>,
                 << Fld(<<"f">>, <<"F">>), Fld(<<"n">>, Int32), Fld(<<"g">>, <<"F">>) >>),
             Msg(<< <<"a">> >>, <<"K">>, << Fld(<<"f">>, <<"F">>) >>),
             Msg(<<>>, <<"a", "b">>, <<>>),
             Msg(<< <<"a", "b">> >>, <<"X">>, << Fld(<<"f">>, <<"F">>) >>),
             Msg(<<>>, <<"G">>, << Fld(<<"g">>, <<"F">>) >>) >>

\* spec.md section 8: a.proto imports b.proto and refers to b.R by dotted names
DottedFiles ==
    (FA :> << Pkg(<<"a">>), Imp(FB),
              Msg(<<>>, <<"F">>,
                  << Fld(<<"x">>, <<"b", ".", "R">>),
                     Fld(<<"y">>, <<"x", ".", "R">>),
                     Fld(<<"z">>, <<"R">>),
                     Fld(<<"w">>, <<".", "b", ".", "R">>) >>) >>)
    @@ (FB :> << Pkg(<<"b">>), Msg(<<>>, <<"R">>, <<>>),
                 Enm(<<>>, <<"E">>),
                 Msg(<<>>, <<"H">>, << Fld(<<"e">>, <<"E">>), Fld(<<"r">>, <<"b", ".", "R">>) >>) >>)

\* three declarations a.b.R, b.R and c.b.R share the last component R
DottedManyFiles ==
    (FA :> << Pkg(<<"a">>), Imp(FB), Imp(FC),
              Msg(<<>>, <<"b">>, <<>>),
              Msg(<< <<"b">> >>, <<"R">>, <<>>),
              Msg(<<>>, <<"F">>,
                  << Fld(<<"x">>, <<"b", ".", "R">>),
                     Fld(<<"u">>, <<"c", ".", "b", ".", "R">>),
                     Fld(<<"v">>, <<"d", ".", "R">>),
                     Fld(<<"x", "2">>, <<"b", ".", "R">>) >>) >>)
    @@ (FB :> << Pkg(<<"b">>), Msg(<<>>, <<"R">>, <<>>),
                 Msg(<<>>, <<"H">>, << Fld(<<"r">>, <<"b", ".", "R">>) >>) >>)
    @@ (FC :> << Pkg(<<"c">>), Msg(<<>>, <<"b">>, <<>>),
                 Msg(<< <<"b">> >>, <<"R">>, <<>>),
                 Msg(<<>>, <<"G">>, << Fld(<<"r">>, <<"b", ".", "R">>) >>) >>)

\* two candidates of equal length, abb.R and a.b.R, for the reference b.R in scope ab.M
DottedTieFiles ==
    (FA :> << Pkg(<<"a", "b">>), Imp(FB), Imp(FC),
              Msg(<<>>, <<"M">>, << Fld(<<"x">>, <<"b", ".", "R">>) >>) >>)
    @@ (FB :> << Pkg(<<"a", "b", "b">>), Msg(<<>>, <<"R">>, <<>>) >>)
    @@ (FC :> << Pkg(<<"a">>), Msg(<<>>, <<"b">>, <<>>), Msg(<< <<"b">> >>, <<"R">>, <<>>) >>)

\* an import cycle A -> B -> A, with a self-import of B
CycleFiles ==
    (FA :> << Pkg(<<"p">>), Imp(FB),
              Msg(<<>>, <<"X">>, << Fld(<<"y">>, <<"Y">>) >>) >>)
    @@ (FB :> << Pkg(<<"p">>), Imp(FA), Imp(FB),
                 Msg(<<>>, <<"Y">>, << Fld(<<"x">>, <<"X">>) >>) >>)

\* a diamond A -> {B, C} -> D, and an import Z that cannot be opened
DiamondFiles ==
    (FA :> << Pkg(<<"p">>), Imp(FB), Imp(FC),
              Msg(<<>>, <<"M">>, << Fld(<<"d">>, <<"D">>), Fld(<<"e">>, <<"E">>) >>) >>)
    @@ (FB :> << Pkg(<<"p">>), Imp(FD), Enm(<<>>, <<"E">>) >>)
    @@ (FC :> << Pkg(<<"q">>), Imp(FD), Imp(FZ), Imp(FZ),
                 Msg(<<>>, <<"N">>, << Fld(<<"d">>, <<"D">>) >>) >>)
    @@ (FD :> << Pkg(<<"p">>), Msg(<<>>, <<"D">>, <<>>) >>)

\* p.M is declared in B and again in A
DuplicateFiles ==
    (FA :> << Pkg(<<"p">>), Imp(FB),
              Msg(<<>>, <<"M">>, << Fld(<<"g">>, <<"N">>) >>),
              Msg(<<>>, <<"L">>, << Fld(<<"m">>, <<"M">>) >>) >>)
    @@ (FB :> << Pkg(<<"p">>),
                 Msg(<<>>, <<"M">>, << Fld(<<"f">>, <<"N">>) >>),
                 Msg(<<>>, <<"N">>, <<>>),
                 Msg(<<>>, <<"O">>, << Fld(<<"m">>, <<"M">>) >>) >>)

\* a message whose name has the form of an alias, declared twice, and a field of
\* an undeclared type whose name is the alias of the field's owner
AliasNameFiles ==
    FA :> << Pkg(<<"p">>),
             Msg(<<>>, <<"J", "a", "_", "1", "0", "0">>, <<>>),
             Msg(<<>>, <<"J", "a", "_", "1", "0", "0">>, <<>>),
             Msg(<<>>, <<"N">>, << Fld(<<"x">>, <<"J", "a", "_", "1", "0", "0">>),
                                   Fld(<<"y">>, <<"J", "a", "_", "1", "0", "1">>) >>) >>

\* a service with two methods; Q and S refer to each other and T refers to itself
ServiceFiles ==
    FA :> << Pkg(<<"p">>),
             Msg(<<>>, <<"Q">>, << Fld(<<"s">>, <<"S">>) >>),
             Msg(<<>>, <<"R">>, <<>>),
             Msg(<<>>, <<"S">>, << Fld(<<"q">>, <<"Q">>) >>),
             Msg(<<>>, <<"T">>, << Fld(<<"t">>, <<"T">>) >>),
             Srv(<<"V">>, << Rpc(<<"G">>, <<"S">>, <<"R">>),
                             Rpc(<<"H">>, <<"T">>, <<"R">>) >>) >>

\* the request type S of method G has a field of type q.W; the service is pq.W
ServiceFieldFiles ==
    (FA :> << Pkg(<<"p", "q">>), Imp(FB),
              Msg(<<>>, <<"R">>, <<>>),
              Msg(<<>>, <<"S">>, << Fld(<<"v">>, <<"q", ".", "W">>) >>),
              Msg(<<>>, <<"T">>, <<>>),
              Srv(<<"W">>, << Rpc(<<"G">>, <<"S">>, <<"R">>),
                              Rpc(<<"H">>, <<"T">>, <<"R">>) >>) >>)
    @@ (FB :> << Pkg(<<"q">>), Msg(<<>>, <<"W">>, <<>>) >>)

\* p.a.K is declared in B, where F is p.F alone, and again in A, which adds p.a.F
RebindFiles ==
    (FA :> << Pkg(<<"p">>), Imp(FB),
              Msg(<<>>, <<"a">>, <<>>),
              Msg(<< <<"a">> >>, <<"F">>, <<>>),
              Msg(<< <<"a">> >>, <<"K">>, << Fld(<<"f">>, <<"F">>) >>) >>)
    @@ (FB :> << Pkg(<<"p">>),
                 Msg(<<>>, <<"a">>, <<>>),
                 Msg(<< <<"a">> >>, <<"K">>, << Fld(<<"f">>, <<"F">>) >>),
                 Msg(<<>>, <<"F">>, <<>>) >>)

\* a root file with an enum, a message, a service and a method
StarFiles ==
    (FA :> << Pkg(<<"p">>), Imp(FB),
              Enm(<<>>, <<"E">>),
              Msg(<<>>, <<"M">>, << Fld(<<"e">>, <<"E">>), Fld(<<"r">>, <<"R">>) >>),
              Srv(<<"V">>, << Rpc(<<"G">>, <<"M">>, <<"R">>) >>) >>)
    @@ (FB :> << Pkg(<<"q">>), Msg(<<>>, <<"R">>, <<>>) >>)

\* B refers to U, F and b.R before A declares them
MissingFiles ==
    (FA :> << Pkg(<<"p">>), Imp(FB),
              Msg(<<>>, <<"U">>, <<>>),
              Msg(<<>>, <<"a">>, <<>>),
              Msg(<< <<"a">> >>, <<"F">>, <<>>),
              Msg(<< <<"a">> >>, <<"b">>, <<>>),
              Msg(<< <<"a">>, <<"b">> >>, <<"F">>, <<>>),
              Msg(<< <<"a">>, <<"b">> >>, <<"R">>, <<>>),
              Msg(<< <<"a">> >>, <<"R">>, <<>>),
              Msg(<< <<"a">>, <<"b">> >>, <<"H">>,
                  << Fld(<<"f">>, <<"F">>), Fld(<<"r">>, <<"b", ".", "R">>),
                     Fld(<<"k">>, <<"U">>), Fld(<<"w">>, <<"W">>) >>) >>)
    @@ (FB :> << Pkg(<<"q">>),
                 Msg(<<>>, <<"M">>, << Fld(<<"f">>, <<"U">>), Fld(<<"g">>, <<"U">>),
                                       Fld(<<"h">>, <<"F">>), Fld(<<"d">>, <<"b", ".", "R">>) >>),
                 Msg(<<>>, <<"N">>, << Fld(<<"h">>, <<"U">>) >>) >>)

Scenarios ==
    { [files |-> NestedFiles, root |-> FA,
       sels |-> {<<>>, <<"H">>, <<"F">>, <<"K">>}],
      [files |-> DottedFiles, root |-> FA,
       sels |-> {<<>>, <<"F">>, <<"b", ".", "H">>, SelAll}],
      [files |-> DottedManyFiles, root |-> FA,
       sels |-> {<<>>, <<"a", ".", "F">>}],
      [files |-> DottedTieFiles, root |-> FA, sels |-> {<<>>, <<"M">>}],
      [files |-> CycleFiles, root |-> FA, sels |-> {<<>>, <<"X">>, <<"Y">>}],
      [files |-> CycleFiles, root |-> FB, sels |-> {<<>>, <<"X">>}],
      [files |-> DiamondFiles, root |-> FA,
       sels |-> {<<>>, <<"M">>, <<"N">>, <<"q", ".">>, SelImports}],
      [files |-> DiamondFiles, root |-> FZ, sels |-> {<<>>}],
      [files |-> DuplicateFiles, root |-> FA,
       sels |-> {<<>>, <<"M">>, <<"O">>, <<"L">>}],
      [files |-> AliasNameFiles, root |-> FA, sels |-> {<<>>, <<"N">>}],
      [files |-> ServiceFiles, root |-> FA,
       sels |-> {<<>>, <<"G">>, <<"H">>, <<"V">>, <<"S">>, <<"T">>, <<"G", ";", "Q">>,
                 <<"Z">>, <<"G", ";", "Z">>, <<"S", ";">>}],
      [files |-> ServiceFieldFiles, root |-> FA, sels |-> {<<>>, <<"G">>, <<"S">>}],
      [files |-> RebindFiles, root |-> FA, sels |-> {<<>>, <<"K">>}],
      [files |-> StarFiles, root |-> FA, sels |-> {<<>>, SelAll, <<"M">>, <<"G">>}],
      [files |-> MissingFiles, root |-> FA,
       sels |-> {<<>>, <<"H">>, <<"q", ".", "M">>, <<"N">>}] }

(***************************************************************************)
(* State: the fields of pbstate, the configuration, and the position of    *)
(* the run in process().                                                   *)
(***************************************************************************)
VARIABLES
    files,          \* the file system (input): file name -> elements
    root,           \* the name process is first called with (input)
    selection,      \* the -select argument (input)
    showMissing,    \* options("show missing types")
    allowMissing,   \* options("allow missing imports")
    knownFiles,     \* pbstate.knownFiles: file name -> pkgInfo
    types237,       \* pbstate.types237: FullName -> tinfo
    translate,      \* pbstate.translate: OriginalName -> list of FullName
    inclusions,     \* pbstate.inclusions: "unique:field" -> (UniqueName -> count)
    resolutions,    \* pbstate.resolutions: <<scope, reference>> -> FullName
    diveDepth,      \* pbstate.diveDepth
    counter,        \* pbstate.counter
    knownNames,     \* pbstate.knownNames: UniqueName -> FullName
    proto,          \* pbstate.proto
    pkg,            \* pbstate.pkg
    phase,          \* "start", "run", "seed", "bfs", "done" or "panic"
    stack,          \* the activations of process(): file, pass, position, saved locals
    ret,            \* the value the last finished call of process() returned
    calls,          \* history: the calls of getUniqueName, with the alias each returned
    loads,          \* history: file name -> number of times the file was parsed
    walkSteps,      \* history: the number of steps of the import walk taken so far
    sel             \* the locals of showSelectedInclusion

pbs == <<knownFiles, types237, translate, inclusions, resolutions, diveDepth,
         counter, knownNames, proto, pkg>>

config == <<files, root, selection, showMissing, allowMissing>>

vars == <<config, pbs, phase, stack, ret, calls, loads, walkSteps, sel>>

CounterStart == 100

\* matches: the work queue; index, nseeds: the position and the length of the loop
\* over the seeds; types, posttypes, inclusions: the result being built (the entities
\* by qualified name); err: expandSelection failed; queued: history of every name
\* ever appended to matches
NoSel == [matches |-> <<>>, index |-> 1, nseeds |-> 0, types |-> {}, posttypes |-> {},
          inclusions |-> EmptyMap, err |-> FALSE, queued |-> <<>>]

Init ==
    /\ \E sc \in Scenarios :
         /\ files = sc.files
         /\ root = sc.root
         /\ selection \in sc.sels
    /\ showMissing \in BOOLEAN
    /\ allowMissing \in BOOLEAN
    /\ knownFiles = EmptyMap
    /\ types237 = EmptyMap
    /\ translate = EmptyMap
    /\ inclusions = EmptyMap
    /\ resolutions = EmptyMap
    /\ diveDepth = 0
    /\ counter = CounterStart
    /\ knownNames = EmptyMap
    /\ proto = <<>>
    /\ pkg = <<>>
    /\ phase = "start"
    /\ stack = <<>>
    /\ ret = TRUE
    /\ calls = <<>>
    /\ loads = EmptyMap
    /\ walkSteps = 0
    /\ sel = NoSel

(***************************************************************************)
(* Names                                                                   *)
(***************************************************************************)
RECURSIVE getPackageName(_)
getPackageName(elems) ==
    IF elems = <<>> THEN <<>>
    ELSE IF Head(elems).kind = "package" THEN Head(elems).name
    ELSE getPackageName(Tail(elems))

RECURSIVE getParent(_, _)
getParent(elems, outer) ==
    IF outer = <<>> THEN getPackageName(elems)
    ELSE getParent(elems, SubSeq(outer, 1, Len(outer) - 1))
             \o separator \o outer[Len(outer)]

getFullName(elems, e) == getParent(elems, e.outer) \o separator \o e.name

\* fmt.Sprintf("Ja_%d", pbs.counter)
Ja(n) == <<"J", "a", "_">> \o Itoa(n)

\* (mutant) getUniqueName that does not advance the counter
getUniqueName_SameCounter(ns, short, full) ==
    IF short \in DOMAIN ns.knownNames /\ ns.knownNames[short] = full
    THEN [unique |-> short, counter |-> ns.counter, knownNames |-> ns.knownNames,
          calls |-> Append(ns.calls, [short |-> short, full |-> full, unique |-> short])]
    ELSE [unique |-> Ja(ns.counter), counter |-> ns.counter,
          knownNames |-> Put(ns.knownNames, Ja(ns.counter), full),
          calls |-> Append(ns.calls,
                           [short |-> short, full |-> full, unique |-> Ja(ns.counter)])]

\* getUniqueName on the names state [counter, knownNames, calls]; the alias is .unique
getUniqueName(ns, short, full) ==
    IF short \in DOMAIN ns.knownNames /\ ns.knownNames[short] = full
    THEN [unique |-> short, counter |-> ns.counter, knownNames |-> ns.knownNames,
          calls |-> Append(ns.calls, [short |-> short, full |-> full, unique |-> short])]
    ELSE [unique |-> Ja(ns.counter), counter |-> ns.counter + 1,
          knownNames |-> Put(ns.knownNames, Ja(ns.counter), full),
          calls |-> Append(ns.calls,
                           [short |-> short, full |-> full, unique |-> Ja(ns.counter)])]

Names == [counter |-> counter, knownNames |-> knownNames, calls |-> calls]

saveMapping(tr, short, full) ==
    Put(tr, short, (IF short \in DOMAIN tr THEN tr[short] ELSE <<>>) \o <<full>>)

tinfo(typename, fullname, unique, name, protopack) ==
    [typename |-> typename, fullname |-> fullname, unique |-> unique, name |-> name,
     protopack |-> protopack, parent |-> <<>>, req |-> <<>>, resp |-> <<>>]

(***************************************************************************)
(* process(): entry, the import walk and the three walks over a file       *)
(***************************************************************************)
Frame(f, prev, prevPkg) ==
    [file |-> f, pass |-> "decl", i |-> 1, j |-> 1, prev |-> prev, prevPkg |-> prevPkg]

Top == stack[Len(stack)]

Elems == files[Top.file]

AtElement(pass) ==
    /\ phase = "run"
    /\ stack # <<>>
    /\ Top.pass = pass
    /\ Top.i <= Len(Elems)

Cur == Elems[Top.i]

SetTop(fr) == [stack EXCEPT ![Len(stack)] = fr]

Advance == SetTop([Top EXCEPT !.i = @ + 1, !.j = 1])

newPkgInfo(f, missing) ==
    [fileName |-> f, missing |-> missing, dependencies |-> <<>>, packageName |-> <<>>]

\* process(pbs, root, selection) at depth 0, when the file opens
ProcessRoot ==
    /\ phase = "start"
    /\ root \in DOMAIN files
    /\ knownFiles' = Put(knownFiles, root, newPkgInfo(root, FALSE))
    /\ proto' = root
    /\ loads' = Put(loads, root, 1)
    /\ stack' = <<Frame(root, <<>>, <<>>)>>
    /\ phase' = "run"
    /\ UNCHANGED <<config, types237, translate, inclusions, resolutions, diveDepth,
                   counter, knownNames, pkg, ret, calls, sel>>
    /\ walkSteps' = walkSteps + 1

\* process at depth 0, when Find fails: panic("failed to open ...")
ProcessRootPanic ==
    /\ phase = "start"
    /\ root \notin DOMAIN files
    /\ phase' = "panic"
    /\ UNCHANGED <<config, pbs, stack, ret, calls, loads, sel>>
    /\ walkSteps' = walkSteps + 1

addDependency(kf, f) ==
    [kf EXCEPT ![proto].dependencies = Append(@, f)]

\* handleImport of a file that is in knownFiles: process returns !inf.missing
HandleImportKnown ==
    /\ AtElement("decl")
    /\ Cur.kind = "import"
    /\ Cur.file \in DOMAIN knownFiles
    /\ knownFiles' = addDependency(knownFiles, Cur.file)
    /\ ret' = ~knownFiles[Cur.file].missing
    /\ stack' = Advance
    /\ UNCHANGED <<config, types237, translate, inclusions, resolutions, diveDepth,
                   counter, knownNames, proto, pkg, phase, calls, loads, sel>>
    /\ walkSteps' = walkSteps + 1

\* (mutant) a file that cannot be opened is recorded like a file that was read
HandleImportMissing_AsRead ==
    /\ AtElement("decl")
    /\ Cur.kind = "import"
    /\ Cur.file \notin DOMAIN knownFiles
    /\ Cur.file \notin DOMAIN files
    /\ diveDepth + 1 > 0 /\ allowMissing
    /\ knownFiles' = Put(addDependency(knownFiles, Cur.file), Cur.file,
                         newPkgInfo(Cur.file, FALSE))
    /\ ret' = TRUE
    /\ stack' = Advance
    /\ UNCHANGED <<config, types237, translate, inclusions, resolutions, diveDepth,
                   counter, knownNames, proto, pkg, phase, calls, loads, sel>>
    /\ walkSteps' = walkSteps + 1

\* handleImport of a file that cannot be opened, tolerated: recorded as missing
HandleImportMissing ==
    /\ AtElement("decl")
    /\ Cur.kind = "import"
    /\ Cur.file \notin DOMAIN knownFiles
    /\ Cur.file \notin DOMAIN files
    /\ diveDepth + 1 > 0 /\ allowMissing
    /\ knownFiles' = Put(addDependency(knownFiles, Cur.file), Cur.file,
                         newPkgInfo(Cur.file, TRUE))
    /\ ret' = FALSE
    /\ stack' = Advance
    /\ UNCHANGED <<config, types237, translate, inclusions, resolutions, diveDepth,
                   counter, knownNames, proto, pkg, phase, calls, loads, sel>>
    /\ walkSteps' = walkSteps + 1

\* handleImport of a file that cannot be opened, not tolerated: panic
HandleImportPanic ==
    /\ AtElement("decl")
    /\ Cur.kind = "import"
    /\ Cur.file \notin DOMAIN knownFiles
    /\ Cur.file \notin DOMAIN files
    /\ ~(diveDepth + 1 > 0 /\ allowMissing)
    /\ knownFiles' = addDependency(knownFiles, Cur.file)
    /\ diveDepth' = diveDepth + 1
    /\ phase' = "panic"
    /\ UNCHANGED <<config, types237, translate, inclusions, resolutions, counter,
                   knownNames, proto, pkg, stack, ret, calls, loads, sel>>
    /\ walkSteps' = walkSteps + 1

\* (mutant) process registers a file in knownFiles only after its walks: an import
\* of a file that is being processed dives into it again
HandleImportDive_LateRegister ==
    /\ AtElement("decl")
    /\ Cur.kind = "import"
    /\ Cur.file \in DOMAIN files
    /\ \/ Cur.file \notin DOMAIN knownFiles
       \/ \E k \in 1..Len(stack) : stack[k].file = Cur.file
    /\ knownFiles' = Put(addDependency(knownFiles, Cur.file), Cur.file,
                         newPkgInfo(Cur.file, FALSE))
    /\ diveDepth' = diveDepth + 1
    /\ proto' = Cur.file
    /\ loads' = Put(loads, Cur.file,
                    (IF Cur.file \in DOMAIN loads THEN loads[Cur.file] ELSE 0) + 1)
    /\ stack' = Append(stack, Frame(Cur.file, proto, pkg))
    /\ walkSteps' = walkSteps + 1
    /\ UNCHANGED <<config, types237, translate, inclusions, resolutions, counter,
                   knownNames, pkg, phase, ret, calls, sel>>

\* handleImport diving into a new file: process registers it and starts its first walk
HandleImportDive ==
    /\ AtElement("decl")
    /\ Cur.kind = "import"
    /\ Cur.file \notin DOMAIN knownFiles
    /\ Cur.file \in DOMAIN files
    /\ knownFiles' = Put(addDependency(knownFiles, Cur.file), Cur.file,
                         newPkgInfo(Cur.file, FALSE))
    /\ diveDepth' = diveDepth + 1
    /\ proto' = Cur.file
    /\ loads' = Put(loads, Cur.file,
                    (IF Cur.file \in DOMAIN loads THEN loads[Cur.file] ELSE 0) + 1)
    /\ stack' = Append(stack, Frame(Cur.file, proto, pkg))
    /\ UNCHANGED <<config, types237, translate, inclusions, resolutions, counter,
                   knownNames, pkg, phase, ret, calls, sel>>
    /\ walkSteps' = walkSteps + 1

handlePackageDeclaration ==
    /\ AtElement("decl")
    /\ Cur.kind = "package"
    /\ pkg' = Cur.name
    /\ knownFiles' = [knownFiles EXCEPT ![proto].packageName = Cur.name]
    /\ stack' = Advance
    /\ UNCHANGED <<config, types237, translate, inclusions, resolutions, diveDepth,
                   counter, knownNames, proto, phase, ret, calls, loads, sel>>
    /\ walkSteps' = walkSteps + 1

\* handleEnumDeclaration (protopack is the package name) and
\* handleMessageDeclaration (protopack is the file name)
DeclareType(typename, protopack) ==
    /\ LET fullname == getFullName(Elems, Cur)
           u == getUniqueName(Names, Cur.name, fullname)
       IN /\ counter' = u.counter
          /\ knownNames' = u.knownNames
          /\ calls' = u.calls
          /\ translate' = saveMapping(translate, Cur.name, fullname)
          /\ types237' = Put(types237, fullname,
                             tinfo(typename, fullname, u.unique, Cur.name, protopack))
    /\ stack' = Advance
    /\ UNCHANGED <<config, knownFiles, inclusions, resolutions, diveDepth, proto, pkg,
                   phase, ret, loads, sel>>

handleEnumDeclaration ==
    /\ AtElement("decl")
    /\ Cur.kind = "enum"
    /\ DeclareType("enum", pkg)
    /\ walkSteps' = walkSteps + 1

handleMessageDeclaration ==
    /\ AtElement("decl")
    /\ Cur.kind = "message"
    /\ DeclareType("message", proto)
    /\ walkSteps' = walkSteps + 1

\* the loop over the RPCs of handleServiceDeclaration, on [ns, translate, types237]
RECURSIVE declareRPCs(_, _, _)
declareRPCs(st, name, rpcs) ==
    IF rpcs = <<>> THEN st
    ELSE LET actual == Head(rpcs)
             fullname == name \o separator \o actual.name
             u == getUniqueName(st.ns, actual.name, fullname)
         IN declareRPCs(
                [ns |-> [counter |-> u.counter, knownNames |-> u.knownNames,
                         calls |-> u.calls],
                 translate |-> saveMapping(st.translate, actual.name, fullname),
                 types237 |-> Put(st.types237, fullname,
                                  [tinfo("rpc", fullname, u.unique, actual.name, proto)
                                     EXCEPT !.parent = name, !.req = actual.req,
                                            !.resp = actual.resp])],
                name, Tail(rpcs))

handleServiceDeclaration ==
    /\ AtElement("decl")
    /\ Cur.kind = "service"
    /\ LET name == getFullName(Elems, Cur)
           u == getUniqueName(Names, Cur.name, name)
           st == declareRPCs(
                     [ns |-> [counter |-> u.counter, knownNames |-> u.knownNames,
                              calls |-> u.calls],
                      translate |-> saveMapping(translate, Cur.name, name),
                      types237 |-> types237],
                     name, Cur.rpcs)
       IN /\ counter' = st.ns.counter
          /\ knownNames' = st.ns.knownNames
          /\ calls' = st.ns.calls
          /\ translate' = st.translate
          /\ types237' = Put(st.types237, name,
                             tinfo("service", name, u.unique, Cur.name, proto))
    /\ stack' = Advance
    /\ UNCHANGED <<config, knownFiles, inclusions, resolutions, diveDepth, proto, pkg,
                   phase, ret, loads, sel>>
    /\ walkSteps' = walkSteps + 1

(***************************************************************************)
(* The resolver                                                            *)
(***************************************************************************)
\* the scalar type names of the schema language
SimpleTypes ==
    { <<"d", "o", "u", "b", "l", "e">>, <<"f", "l", "o", "a", "t">>,
      Int32, <<"i", "n", "t", "6", "4">>,
      <<"u", "i", "n", "t", "3", "2">>, <<"u", "i", "n", "t", "6", "4">>,
      <<"s", "i", "n", "t", "3", "2">>, <<"s", "i", "n", "t", "6", "4">>,
      <<"f", "i", "x", "e", "d", "3", "2">>, <<"f", "i", "x", "e", "d", "6", "4">>,
      <<"s", "f", "i", "x", "e", "d", "3", "2">>, <<"s", "f", "i", "x", "e", "d", "6", "4">>,
      <<"b", "o", "o", "l">>, <<"s", "t", "r", "i", "n", "g">>,
      <<"b", "y", "t", "e", "s">> }

isSimpleType(t) == t \in SimpleTypes

\* getResolution: the set of tinfo the call can return; the empty set stands for nil.
\* The fallback loop ranges over a Go map, so any matching placeholder can be returned.
getResolution(scope, shorttype) ==
    IF /\ <<scope, shorttype>> \in DOMAIN resolutions
       /\ resolutions[<<scope, shorttype>>] \in DOMAIN types237
    THEN {types237[resolutions[<<scope, shorttype>>]]}
    ELSE {types237[t] : t \in {x \in DOMAIN types237 :
                                  /\ types237[x].typename = "missing"
                                  /\ types237[x].name = shorttype}}

addResolution(res, scope, shorttype, fulltype) == Put(res, <<scope, shorttype>>, fulltype)

\* the loop of resolveType over pbs.translate[local] (more than one occurrence)
RECURSIVE nearestOf(_, _, _, _)
nearestOf(full, local, ones, found) ==
    IF ones = <<>> THEN found
    ELSE LET one == Head(ones)
             namespace == SubSeq(one, 1, Len(one) - Len(local) - Len(separator))
         IN nearestOf(full, local, Tail(ones),
                      IF HasPrefix(full, namespace) /\ Len(one) > Len(found)
                      THEN one ELSE found)

\* the type names the loop of resolveType over pbs.types237 accepts (dotted reference)
suffixMatches(full, local) ==
    {typename \in DOMAIN types237 :
        /\ HasSuffix(typename, local)
        /\ LET cut == SubSeq(typename, 1, Len(typename) - Len(local))
               prefix == IF HasSuffix(cut, separator)
                         THEN SubSeq(cut, 1, Len(cut) - Len(separator)) ELSE cut
           IN HasPrefix(full, prefix)}

\* what that loop can leave in found: the map is ranged over in any order and a
\* later name replaces found only when strictly longer
longestOf(names) == {n \in names : \A m \in names : Len(m) <= Len(n)}

\* resolveType after its early returns: the choice among the declared names
bindType(full, local) ==
    IF local \in DOMAIN translate /\ Len(translate[local]) > 1
    THEN LET found == nearestOf(full, local, translate[local], <<>>)
         IN IF Len(found) > 0 THEN {addResolution(resolutions, full, local, found)}
            ELSE {resolutions}
    ELSE IF Len(Split(local, ".")) > 1
    THEN LET founds == longestOf(suffixMatches(full, local))
         IN IF founds # {}
            THEN {addResolution(resolutions, full, local, found) : found \in founds}
            ELSE {resolutions}
    ELSE IF local \in DOMAIN translate /\ Len(translate[local]) = 1
    THEN {addResolution(resolutions, full, local, translate[local][1])}
    ELSE {resolutions}

\* resolveType that looks no pair up before it chooses
resolveType_NoLookup(full, local) ==
    IF isSimpleType(local) THEN {resolutions} ELSE bindType(full, local)

\* resolveType: the set of values pbs.resolutions can have after the call
resolveType(full, local) ==
    IF isSimpleType(local) THEN {resolutions}
    ELSE IF getResolution(full, local) # {} THEN {resolutions}
    ELSE bindType(full, local)

\* the type references of a declaration, in order: the fields of a message, and for
\* a service the request and the response of each RPC under their edge field names
RECURSIVE rpcRefs(_)
rpcRefs(rpcs) ==
    IF rpcs = <<>> THEN <<>>
    ELSE << [field |-> Head(rpcs).name \o <<"_", "r", "e", "q", "u", "e", "s", "t">>,
             type |-> Head(rpcs).req],
            [field |-> Head(rpcs).name \o <<"_", "r", "e", "s", "p", "o", "n", "s", "e">>,
             type |-> Head(rpcs).resp] >>
         \o rpcRefs(Tail(rpcs))

Refs(e) ==
    IF e.kind = "service" THEN rpcRefs(e.rpcs)
    ELSE [k \in 1..Len(e.fields) |-> [field |-> e.fields[k].name, type |-> e.fields[k].type]]

AtRef(pass, kind) ==
    /\ AtElement(pass)
    /\ Cur.kind = kind
    /\ Top.j <= Len(Refs(Cur))

CurRef == Refs(Cur)[Top.j]

CurFull == getFullName(Elems, Cur)

NextRef == SetTop([Top EXCEPT !.j = @ + 1])

\* one resolveType call of handleMessageTypeResolution / handleServiceTypeResolution
ResolveRef ==
    /\ resolutions' \in resolveType(CurFull, CurRef.type)
    /\ stack' = NextRef
    /\ UNCHANGED <<config, knownFiles, types237, translate, inclusions, diveDepth,
                   counter, knownNames, proto, pkg, phase, ret, calls, loads, sel>>

handleMessageTypeResolution ==
    /\ AtRef("resolve", "message")
    /\ ResolveRef
    /\ walkSteps' = walkSteps + 1

handleServiceTypeResolution ==
    /\ AtRef("resolve", "service")
    /\ ResolveRef
    /\ walkSteps' = walkSteps + 1

(***************************************************************************)
(* The inclusion graph builder                                             *)
(***************************************************************************)
edgeKey(from, field) == IF Len(field) > 0 THEN from \o <<":">> \o field ELSE from

recordInclusion(inc, from, field, to) ==
    LET fullFrom == edgeKey(from, field)
        tos == IF fullFrom \in DOMAIN inc THEN inc[fullFrom] ELSE EmptyMap
    IN Put(inc, fullFrom, Put(tos, to, (IF to \in DOMAIN tos THEN tos[to] ELSE 0) + 1))

missingName(from, missingType) ==
    <<"m", "i", "s", "s", "i", "n", "g", ".">> \o from \o separator \o missingType

\* recordMissingType on [ns, types237]; the alias of the placeholder is .unique
recordMissingType(ns, types, from, missingType) ==
    LET fulltype == missingName(from, missingType)
        u == getUniqueName(ns, missingType, fulltype)
    IN IF fulltype \notin DOMAIN types
       THEN [unique |-> u.unique, counter |-> u.counter, knownNames |-> u.knownNames,
             calls |-> u.calls,
             types237 |-> Put(types, fulltype,
                              tinfo("missing", fulltype, u.unique, missingType, proto))]
       ELSE [unique |-> types[fulltype].unique, counter |-> ns.counter,
             knownNames |-> ns.knownNames, calls |-> ns.calls, types237 |-> types]

\* (mutant) the edge is recorded to a new alias and no placeholder is registered
recordMissingInclusion_NoType(from, field, missingType) ==
    IF showMissing
    THEN /\ inclusions' = recordInclusion(inclusions, from, field, Ja(counter))
         /\ UNCHANGED <<counter, knownNames, calls, types237>>
    ELSE UNCHANGED <<counter, knownNames, calls, types237, inclusions>>

\* recordMissingInclusion(from, field, missingType)
recordMissingInclusion(from, field, missingType) ==
    IF showMissing
    THEN LET m == recordMissingType(Names, types237, from, missingType)
         IN /\ counter' = m.counter
            /\ knownNames' = m.knownNames
            /\ calls' = m.calls
            /\ types237' = m.types237
            /\ inclusions' = recordInclusion(inclusions, from, field, m.unique)
    ELSE UNCHANGED <<counter, knownNames, calls, types237, inclusions>>

\* one field of handleMessageBody, or one request/response of handleServiceBody
BodyRef ==
    /\ LET info == types237[CurFull]
       IN IF isSimpleType(CurRef.type)
          THEN UNCHANGED <<counter, knownNames, calls, types237, inclusions>>
          ELSE IF getResolution(CurFull, CurRef.type) # {}
          THEN /\ \E inf \in getResolution(CurFull, CurRef.type) :
                    inclusions' = recordInclusion(inclusions, info.unique, CurRef.field,
                                                  inf.unique)
               /\ UNCHANGED <<counter, knownNames, calls, types237>>
          ELSE recordMissingInclusion(info.unique, CurRef.field, CurRef.type)
    /\ stack' = NextRef
    /\ UNCHANGED <<config, knownFiles, translate, resolutions, diveDepth, proto, pkg,
                   phase, ret, loads, sel>>

handleMessageBody ==
    /\ AtRef("body", "message")
    /\ BodyRef
    /\ walkSteps' = walkSteps + 1

handleServiceBody ==
    /\ AtRef("body", "service")
    /\ BodyRef
    /\ walkSteps' = walkSteps + 1

\* a handler of the second or third walk returns after its last reference
HandlerReturn ==
    /\ \E pass \in {"resolve", "body"} : AtElement(pass)
    /\ Cur.kind \in {"message", "service"}
    /\ Top.j > Len(Refs(Cur))
    /\ stack' = Advance
    /\ UNCHANGED <<config, pbs, phase, ret, calls, loads, sel>>
    /\ walkSteps' = walkSteps + 1

\* proto.Walk passes an element no handler of the walk is registered for
WalkSkip ==
    /\ \E pass \in {"resolve", "body"} : AtElement(pass)
    /\ Cur.kind \notin {"message", "service"}
    /\ stack' = Advance
    /\ UNCHANGED <<config, pbs, phase, ret, calls, loads, sel>>
    /\ walkSteps' = walkSteps + 1

AtEnd(pass) ==
    /\ phase = "run"
    /\ stack # <<>>
    /\ Top.pass = pass
    /\ Top.i > Len(Elems)

\* process goes from one proto.Walk to the next
NextWalk ==
    /\ \/ AtEnd("decl") /\ stack' = SetTop([Top EXCEPT !.pass = "resolve", !.i = 1, !.j = 1])
       \/ AtEnd("resolve") /\ stack' = SetTop([Top EXCEPT !.pass = "body", !.i = 1, !.j = 1])
    /\ UNCHANGED <<config, pbs, phase, ret, calls, loads, sel>>
    /\ walkSteps' = walkSteps + 1

\* process of an imported file returns true, and handleImport restores pkg and proto
ProcessReturn ==
    /\ AtEnd("body")
    /\ Len(stack) > 1
    /\ diveDepth' = diveDepth - 1
    /\ pkg' = Top.prevPkg
    /\ proto' = Top.prev
    /\ ret' = TRUE
    /\ LET rest == SubSeq(stack, 1, Len(stack) - 1)
       IN stack' = [rest EXCEPT ![Len(rest)] = [@ EXCEPT !.i = @ + 1, !.j = 1]]
    /\ UNCHANGED <<config, knownFiles, types237, translate, inclusions, resolutions,
                   counter, knownNames, phase, calls, loads, sel>>
    /\ walkSteps' = walkSteps + 1

(***************************************************************************)
(* The subgraph selector                                                   *)
(***************************************************************************)
\* the orders in which a range over a Go map can deliver the members of a set
Orders(S) ==
    {q \in [1..Cardinality(S) -> S] : \A a, b \in 1..Cardinality(S) : q[a] = q[b] => a = b}

\* (mutant) the relaxed search alone: every name that contains the fragment
localsOf_Relaxed(fragment) == {t \in DOMAIN types237 : Contains(t, fragment)}

localsOf(fragment) ==
    LET bySuffix == {t \in DOMAIN types237 : HasSuffix(t, fragment)}
    IN IF bySuffix # {} THEN bySuffix
       ELSE {t \in DOMAIN types237 : Contains(t, fragment)}

\* the loop of expandSelection over the fragments; the result is [err, matches]
RECURSIVE expandFragments(_, _)
expandFragments(frags, matches) ==
    IF frags = <<>> THEN [err |-> FALSE, matches |-> matches]
    ELSE IF Len(Head(frags)) = 0 THEN expandFragments(Tail(frags), matches)
    ELSE IF Cardinality(localsOf(Head(frags))) # 1 THEN [err |-> TRUE, matches |-> <<>>]
    ELSE expandFragments(Tail(frags),
                         Append(matches, CHOOSE t \in localsOf(Head(frags)) : TRUE))

\* expandSelection: the set of results the call can return
expandSelection(selection_) ==
    IF selection_ = SelAll
    THEN {[err |-> FALSE, matches |-> q] :
            q \in Orders({t \in DOMAIN types237 : types237[t].protopack = proto})}
    ELSE {expandFragments(Split(selection_, ";"), <<>>)}

AtRootEnd == AtEnd("body") /\ Len(stack) = 1 /\ diveDepth = 0

\* process of the root file ends with showInclusion or showDependencyTree: rendering only
ShowWhole ==
    /\ AtRootEnd
    /\ selection = <<>> \/ selection = SelImports
    /\ phase' = "done"
    /\ ret' = TRUE
    /\ UNCHANGED <<config, pbs, stack, calls, loads, sel>>
    /\ walkSteps' = walkSteps + 1

\* showSelectedInclusion up to the loop over the seeds
ShowSelectedStart ==
    /\ AtRootEnd
    /\ selection # <<>> /\ selection # SelImports
    /\ \E r \in expandSelection(selection) :
         IF r.err
         THEN /\ sel' = [NoSel EXCEPT !.err = TRUE]
              /\ phase' = "done"
         ELSE /\ sel' = [NoSel EXCEPT !.matches = r.matches, !.nseeds = Len(r.matches),
                                      !.queued = r.matches]
              /\ phase' = "select"
    /\ ret' = TRUE
    /\ UNCHANGED <<config, pbs, stack, calls, loads>>
    /\ walkSteps' = walkSteps + 1

getInclusion(from, field) ==
    IF edgeKey(from, field) \in DOMAIN inclusions
    THEN {[from |-> edgeKey(from, field), to |-> inclusions[edgeKey(from, field)]]}
    ELSE {}

\* the two getInclusion calls of an rpc seed, written into the local inclusions
RECURSIVE seedEdges(_, _, _, _)
seedEdges(inc, unique, rpcName, suffixes) ==
    IF suffixes = <<>> THEN inc
    ELSE LET got == getInclusion(unique, rpcName \o Head(suffixes))
         IN seedEdges(IF got # {} THEN LET g == CHOOSE x \in got : TRUE
                                      IN Put(inc, g.from, g.to)
                      ELSE inc,
                      unique, rpcName, Tail(suffixes))

rpcSuffixes == << <<"_", "r", "e", "q", "u", "e", "s", "t">>,
                 <<"_", "r", "e", "s", "p", "o", "n", "s", "e">> >>

\* one iteration of the loop of showSelectedInclusion over the seeds
SeedStep ==
    /\ phase = "select"
    /\ sel.index <= sel.nseeds
    /\ LET info == types237[sel.matches[sel.index]]
       IN IF info.typename = "rpc"
          THEN \E reqs \in (IF getResolution(info.parent, info.req) = {} THEN {<<>>}
                            ELSE {<<inf.fullname>> : inf \in getResolution(info.parent, info.req)}),
                  resps \in (IF getResolution(info.parent, info.resp) = {} THEN {<<>>}
                             ELSE {<<inf.fullname>> : inf \in getResolution(info.parent, info.resp)}) :
                 sel' = [sel EXCEPT
                           !.posttypes = @ \cup {info.parent},
                           !.inclusions = seedEdges(@, types237[info.parent].unique,
                                                    info.name, rpcSuffixes),
                           !.matches = @ \o reqs \o resps,
                           !.queued = @ \o reqs \o resps,
                           !.index = @ + 1]
          ELSE sel' = [sel EXCEPT !.index = @ + 1]
    /\ UNCHANGED <<config, pbs, phase, stack, ret, calls, loads>>
    /\ UNCHANGED walkSteps

InTraversal == phase = "select" /\ sel.index > sel.nseeds

\* (mutant) the traversal appends a child without looking it up in types
newChildren_Unchecked(unique) ==
    {kc \in UNION {{<<key, child>> : child \in DOMAIN inclusions[key]} :
                     key \in {k \in DOMAIN inclusions : HasPrefix(k, unique)}} :
        kc[2] \in DOMAIN knownNames}

\* the (edge key, child) pairs the traversal appends a queue entry for
newChildren(unique) ==
    {kc \in UNION {{<<key, child>> : child \in DOMAIN inclusions[key]} :
                     key \in {k \in DOMAIN inclusions : HasPrefix(k, unique)}} :
        /\ kc[2] \in DOMAIN knownNames
        /\ knownNames[kc[2]] \notin sel.types}

\* the edge keys the traversal copies into the local inclusions
copiedKeys(unique) ==
    {key \in DOMAIN inclusions :
        /\ HasPrefix(key, unique)
        /\ \E child \in DOMAIN inclusions[key] : child \in DOMAIN knownNames}

\* one iteration of the traversal loop: the head of matches was already added
TraverseSeen ==
    /\ InTraversal
    /\ sel.matches # <<>>
    /\ Head(sel.matches) \in sel.types
    /\ sel' = [sel EXCEPT !.matches = Tail(@)]
    /\ UNCHANGED <<config, pbs, phase, stack, ret, calls, loads>>
    /\ UNCHANGED walkSteps

\* (mutant) the head of matches is expanded and not entered in types
TraverseAdd_NoMark ==
    /\ InTraversal
    /\ sel.matches # <<>>
    /\ Head(sel.matches) \notin sel.types
    /\ LET candidate == Head(sel.matches)
           unique == types237[candidate].unique \o <<":">>
           added == {kc \in newChildren(unique) : knownNames[kc[2]] # candidate}
       IN \E q \in Orders(added) :
            LET fullchildren == [k \in 1..Len(q) |-> knownNames[q[k][2]]]
            IN sel' = [sel EXCEPT
                         !.matches = Tail(@) \o fullchildren,
                         !.queued = @ \o fullchildren,
                         !.inclusions =
                             [key \in (DOMAIN @) \cup copiedKeys(unique) |->
                                 IF key \in copiedKeys(unique) THEN inclusions[key]
                                 ELSE @[key]]]
    /\ UNCHANGED <<config, pbs, phase, stack, ret, calls, loads>>
    /\ UNCHANGED walkSteps

\* one iteration of the traversal loop: the head of matches is added and expanded
TraverseAdd ==
    /\ InTraversal
    /\ sel.matches # <<>>
    /\ Head(sel.matches) \notin sel.types
    /\ LET candidate == Head(sel.matches)
           types == sel.types \cup {candidate}
           unique == types237[candidate].unique \o <<":">>
           added == {kc \in newChildren(unique) : knownNames[kc[2]] # candidate}
       IN \E q \in Orders(added) :
            LET fullchildren == [k \in 1..Len(q) |-> knownNames[q[k][2]]]
            IN sel' = [sel EXCEPT
                         !.types = types,
                         !.matches = Tail(@) \o fullchildren,
                         !.queued = @ \o fullchildren,
                         !.inclusions =
                             [key \in (DOMAIN @) \cup copiedKeys(unique) |->
                                 IF key \in copiedKeys(unique) THEN inclusions[key]
                                 ELSE @[key]]]
    /\ UNCHANGED <<config, pbs, phase, stack, ret, calls, loads>>
    /\ UNCHANGED walkSteps

\* the queue is empty: posttypes are copied into types and the result is rendered
ShowSelectedEnd ==
    /\ InTraversal
    /\ sel.matches = <<>>
    /\ sel' = [sel EXCEPT !.types = @ \cup sel.posttypes]
    /\ phase' = "done"
    /\ UNCHANGED <<config, pbs, stack, ret, calls, loads>>
    /\ UNCHANGED walkSteps

(***************************************************************************)
(* The run                                                                 *)
(***************************************************************************)
Next ==
    \/ ProcessRoot
    \/ ProcessRootPanic
    \/ HandleImportKnown
    \/ HandleImportMissing
    \/ HandleImportPanic
    \/ HandleImportDive
    \/ handlePackageDeclaration
    \/ handleEnumDeclaration
    \/ handleMessageDeclaration
    \/ handleServiceDeclaration
    \/ handleMessageTypeResolution
    \/ handleServiceTypeResolution
    \/ handleMessageBody
    \/ handleServiceBody
    \/ HandlerReturn
    \/ WalkSkip
    \/ NextWalk
    \/ ProcessReturn
    \/ ShowWhole
    \/ ShowSelectedStart
    \/ SeedStep
    \/ TraverseSeen
    \/ TraverseAdd
    \/ ShowSelectedEnd

Spec == Init /\ [][Next]_vars

(***************************************************************************)
(* Properties                                                              *)
(***************************************************************************)
SamePair(c, d) == c.short = d.short /\ c.full = d.full

\* C1 (alias stability): every call of getUniqueName with a (short name,
\* qualified name) pair returns the alias the first call with that pair returned,
\* and a repeated call allocates nothing: the counter has advanced once per
\* distinct pair, and the alias table holds one alias per distinct pair.
C1_AliasStability ==
    /\ \A i, j \in 1..Len(calls) :
         SamePair(calls[i], calls[j]) => calls[i].unique = calls[j].unique
    /\ counter - CounterStart
         = Cardinality({<<calls[i].short, calls[i].full>> : i \in 1..Len(calls)})

\* the files the root reaches through imports that can be opened
RECURSIVE closureFrom(_)
closureFrom(fset) ==
    LET more == {e.file : e \in UNION {{files[f][k] : k \in 1..Len(files[f])} :
                                          f \in fset \cap DOMAIN files}}
                  \ {<<>>}
    IN IF more \subseteq fset THEN fset \cap DOMAIN files
       ELSE closureFrom(fset \cup more)

ImportClosure == closureFrom({root})

InDeclarationPass(f) == \E k \in 1..Len(stack) : stack[k].file = f /\ stack[k].pass = "decl"

Resolving == phase = "run" /\ stack # <<>> /\ Top.pass \in {"resolve", "body"}

\* the fields of the messages of the files that were walked, as [scope, field, type]
WalkedRefs ==
    UNION {{[scope |-> getFullName(files[f], files[f][k]),
             field |-> files[f][k].fields[n].name,
             type |-> files[f][k].fields[n].type] :
              n \in 1..Len(files[f][k].fields)} :
           <<f, k>> \in {fk \in UNION {{f} \X DOMAIN files[f] : f \in DOMAIN loads} :
                           files[fk[1]][fk[2]].kind = "message"}}

\* C2 (cross-file resolution is global): no reference is resolved or turned into an
\* edge while a file of the import closure has not finished its declaration pass;
\* so, with show-missing-types off, at the end of the run every field whose type is
\* the bare name of exactly one declared entity is bound to that entity,
\* whichever file declares it.
C2_GlobalResolution ==
    /\ Resolving =>
         \A f \in ImportClosure : f \in DOMAIN knownFiles /\ ~InDeclarationPass(f)
    /\ (phase = "done" /\ ~showMissing) =>
         \A r \in WalkedRefs :
            (r.type \in DOMAIN translate /\ Len(translate[r.type]) = 1)
            => /\ <<r.scope, r.type>> \in DOMAIN resolutions
               /\ resolutions[<<r.scope, r.type>>] = translate[r.type][1]

\* the steps process takes on one file: the first walk, the two later walks with one
\* step per reference and one per handler, the two changes of walk and the return
RECURSIVE refSteps(_)
refSteps(elems) ==
    IF elems = <<>> THEN 0
    ELSE (IF Head(elems).kind \in {"message", "service"}
          THEN Len(Refs(Head(elems))) + 1 ELSE 1) + refSteps(Tail(elems))

walkCost(f) == Len(files[f]) + 2 + 2 * refSteps(files[f]) + 1

RECURSIVE sumCost(_)
sumCost(fset) ==
    IF fset = {} THEN 0
    ELSE LET f == CHOOSE x \in fset : TRUE IN walkCost(f) + sumCost(fset \ {f})

WalkedOnce ==
    /\ \A f \in DOMAIN loads : loads[f] <= 1
    /\ \A a, b \in 1..Len(stack) : stack[a].file = stack[b].file => a = b
    /\ walkSteps <= 1 + sumCost(DOMAIN loads)

KnownVisit == AtElement("decl") /\ Cur.kind = "import" /\ Cur.file \in DOMAIN knownFiles

\* C3 (import-walk cycle safety): each file is parsed at most once, no file is
\* twice among the active calls of process, and the walk ends: it takes no more
\* steps than one call of process on the root plus one complete processing of each
\* file that was parsed; the visit of an already known file returns its recorded
\* outcome (true unless it was recorded missing) and parses, declares and dives
\* into nothing.
C3_CycleSafety ==
    [][/\ WalkedOnce'
       /\ KnownVisit =>
            /\ ret' = ~knownFiles[Cur.file].missing
            /\ loads' = loads
            /\ types237' = types237
            /\ Len(stack') = Len(stack)]_vars

\* a run over a cycle or a diamond has ended: a known file was imported again
C3_Witness ==
    /\ phase = "done"
    /\ \E f \in DOMAIN knownFiles :
         Cardinality({g \in DOMAIN knownFiles :
                        \E k \in 1..Len(knownFiles[g].dependencies) :
                           knownFiles[g].dependencies[k] = f}) > 1
    /\ \E f \in DOMAIN knownFiles :
         \E k \in 1..Len(knownFiles[f].dependencies) : knownFiles[f].dependencies[k] = f

(***************************************************************************)
(* The resolution policy, stated on names                                  *)
(***************************************************************************)
RECURSIVE Join(_)
Join(parts) ==
    IF Len(parts) = 0 THEN <<>>
    ELSE IF Len(parts) = 1 THEN parts[1]
    ELSE parts[1] \o separator \o Join(Tail(parts))

Components(name) == Split(name, ".")

LastComponent(name) == Components(name)[Len(Components(name))]

\* a qualified name minus its own short name
NamespaceOf(name) == Join(SubSeq(Components(name), 1, Len(Components(name)) - 1))

IsBare(ref) == Len(Components(ref)) = 1

\* the declared qualified names whose short name is the given one
Candidates(short) ==
    IF short \in DOMAIN translate
    THEN {translate[short][k] : k \in 1..Len(translate[short])} ELSE {}

\* a qualified name that ends with the reference, minus that suffix and the separator
RemainingPrefix(name, ref) ==
    LET cut == SubSeq(name, 1, Len(name) - Len(ref))
    IN IF cut # <<>> /\ cut[Len(cut)] = "." THEN SubSeq(cut, 1, Len(cut) - 1) ELSE cut

\* a step that is one call resolveType(CurFull, CurRef.type)
ResolveCall ==
    /\ AtElement("resolve")
    /\ Cur.kind \in {"message", "service"}
    /\ Top.j <= Len(Refs(Cur))
    /\ stack' = NextRef

Pair == <<CurFull, CurRef.type>>

Unresolved == ResolveCall /\ ~isSimpleType(CurRef.type) /\ Pair \notin DOMAIN resolutions

Unshadowed(ref) ==
    \A t \in DOMAIN types237 : ~(types237[t].typename = "missing" /\ types237[t].name = ref)

NearestRule ==
    LET S == {c \in Candidates(CurRef.type) : HasPrefix(CurFull, NamespaceOf(c))}
    IN IF S = {} THEN Pair \notin DOMAIN resolutions'
       ELSE /\ Pair \in DOMAIN resolutions'
            /\ resolutions'[Pair] \in S
            /\ \A d \in S : Len(NamespaceOf(d)) <= Len(NamespaceOf(resolutions'[Pair]))

\* C4 (nearest enclosing namespace): a resolveType call on a not yet bound bare
\* reference with two or more candidates binds it to a candidate whose namespace
\* prefix is a prefix of the scope and is the longest such prefix, and binds
\* nothing when no candidate's namespace prefix is a prefix of the scope.
C4_NearestNamespace ==
    [][(/\ Unresolved
        /\ IsBare(CurRef.type)
        /\ Cardinality(Candidates(CurRef.type)) >= 2) => NearestRule]_vars

\* the rule of C4 for the references no missing placeholder is named after
NearestNamespaceUnshadowed ==
    [][(/\ Unresolved
        /\ IsBare(CurRef.type)
        /\ Cardinality(Candidates(CurRef.type)) >= 2
        /\ Unshadowed(CurRef.type)) => NearestRule]_vars

\* C5 (single candidate): a resolveType call on a not yet bound non-scalar
\* reference, bare or dotted, whose last component is the short name of exactly one
\* declared entity binds the reference to that entity, whatever the scope and the
\* namespace prefix of the reference.
C5_SingleCandidate ==
    [][(/\ Unresolved
        /\ Cardinality(Candidates(LastComponent(CurRef.type))) = 1)
       => /\ Pair \in DOMAIN resolutions'
          /\ resolutions'[Pair] \in Candidates(LastComponent(CurRef.type))]_vars

\* the rule of C5 for bare references of names declared once, no placeholder is named after
SingleCandidateBareUnshadowed ==
    [][(/\ Unresolved
        /\ IsBare(CurRef.type)
        /\ CurRef.type \in DOMAIN translate
        /\ Len(translate[CurRef.type]) = 1
        /\ Unshadowed(CurRef.type))
       => /\ Pair \in DOMAIN resolutions'
          /\ resolutions'[Pair] = translate[CurRef.type][1]]_vars

DottedRule ==
    LET S == {c \in Candidates(LastComponent(CurRef.type)) :
                /\ HasSuffix(c, CurRef.type)
                /\ HasPrefix(CurFull, RemainingPrefix(c, CurRef.type))}
    IN IF S = {} THEN Pair \notin DOMAIN resolutions'
       ELSE /\ Pair \in DOMAIN resolutions'
            /\ resolutions'[Pair] \in S
            /\ \A d \in S : Len(d) <= Len(resolutions'[Pair])

\* C6 (dot-qualified reference): a resolveType call on a not yet bound dotted
\* reference whose last component has more than one candidate keeps the
\* candidates whose qualified name ends with the whole reference and whose
\* remaining prefix is a prefix of the scope, binds the reference to a survivor of
\* the greatest length, and binds nothing when there is no survivor.
C6_DottedReference ==
    [][(/\ Unresolved
        /\ ~IsBare(CurRef.type)
        /\ Cardinality(Candidates(LastComponent(CurRef.type))) > 1) => DottedRule]_vars

\* the rule of C6 for the references no missing placeholder is named after, and
\* whatever the number of candidates
DottedReferenceUnshadowed ==
    [][(/\ Unresolved
        /\ ~IsBare(CurRef.type)
        /\ Unshadowed(CurRef.type)) => DottedRule]_vars

\* C7 (resolution memo permanence): no step changes or removes a binding of the
\* resolution table, and after every step getResolution of a bound pair returns
\* the registry entity of the qualified name the pair was bound to.
C7_MemoPermanence ==
    [][\A pair \in DOMAIN resolutions :
          /\ pair \in DOMAIN resolutions'
          /\ resolutions'[pair] = resolutions[pair]
          /\ resolutions[pair] \in DOMAIN types237'
          /\ getResolution(pair[1], pair[2])' = {types237'[resolutions[pair]]}]_vars

\* the run has ended with a pair whose binding the declarations made after it would
\* no longer choose: its reference now has several candidates and the nearest of
\* them for the scope is another name
C7_Witness ==
    /\ phase = "done"
    /\ \E pair \in DOMAIN resolutions :
          /\ pair[2] \in DOMAIN translate
          /\ Len(translate[pair[2]]) > 1
          /\ nearestOf(pair[1], pair[2], translate[pair[2]], <<>>)
                \notin {<<>>, resolutions[pair]}

BuildEnded == phase \in {"select", "done"}

AliasOf(key) == Split(key, ":")[1]

Placeholders == {t \in DOMAIN types237 : types237[t].typename = "missing"}

\* C8 (missing-type placeholders are per owner): with show-missing-types on, after
\* the build phase every field whose reference stayed unresolved has the
\* placeholder named after its own owner alias and its reference in the registry,
\* the edge of the field points to that placeholder and to no other placeholder,
\* and every placeholder belongs to one (owner alias, name) pair.
C8_PlaceholderPerOwner ==
    (showMissing /\ BuildEnded) =>
        /\ \A r \in WalkedRefs :
             (~isSimpleType(r.type) /\ <<r.scope, r.type>> \notin DOMAIN resolutions) =>
                LET owner == types237[r.scope].unique
                    key == edgeKey(owner, r.field)
                    own == missingName(owner, r.type)
                IN /\ own \in DOMAIN types237
                   /\ types237[own].typename = "missing"
                   /\ key \in DOMAIN inclusions
                   /\ types237[own].unique \in DOMAIN inclusions[key]
                   /\ \A t \in Placeholders :
                        types237[t].unique \in DOMAIN inclusions[key] => t = own
        /\ \A t, u \in Placeholders : types237[t].unique = types237[u].unique => t = u

\* the entity an edge key belongs to, through the alias table
OwnerOf(key) ==
    IF AliasOf(key) \in DOMAIN knownNames THEN knownNames[AliasOf(key)] ELSE <<>>

\* the entities the edges of the entities of a set point to
Targets(S) ==
    {knownNames[to] : to \in UNION {DOMAIN inclusions[key] :
                                      key \in {k \in DOMAIN inclusions : OwnerOf(k) \in S}}
                                \cap DOMAIN knownNames}

RECURSIVE Reach(_)
Reach(S) == IF Targets(S) \subseteq S THEN S ELSE Reach(S \cup Targets(S))

Fragments == Split(selection, ";")

\* the selection is one fragment that matches exactly one entity, of the given kind
SeedOfKind(kind) ==
    /\ phase = "done"
    /\ selection \notin {<<>>, SelAll, SelImports}
    /\ Len(Fragments) = 1
    /\ Cardinality(localsOf(selection)) = 1
    /\ \A t \in localsOf(selection) : types237[t].typename = kind

Seed == CHOOSE t \in localsOf(selection) : TRUE

SelectionClosure ==
    /\ ~sel.err
    /\ sel.types = Reach({Seed})
    /\ DOMAIN sel.inclusions = {key \in DOMAIN inclusions : OwnerOf(key) \in sel.types}
    /\ \A key \in DOMAIN sel.inclusions : sel.inclusions[key] = inclusions[key]

\* C9 (selection closure for a message seed): when the selection is one fragment
\* that matches exactly one message, the selected entities are that message and
\* exactly the entities reachable from it along inclusion edges, and the selected
\* edges are exactly the edges whose owner is a selected entity.
C9_MessageSeedClosure == SeedOfKind("message") => SelectionClosure

NoRedeclaration ==
    \A a, b \in DOMAIN knownNames : knownNames[a] = knownNames[b] => a = b

\* the closure of C9 for the runs in which no qualified name was declared twice
MessageSeedClosureDeclaredOnce ==
    (SeedOfKind("message") /\ NoRedeclaration) => SelectionClosure

RequestOf(rpc) == getResolution(types237[rpc].parent, types237[rpc].req)

ResponseOf(rpc) == getResolution(types237[rpc].parent, types237[rpc].resp)

ServiceKeys(inc, rpc) ==
    {key \in DOMAIN inc : AliasOf(key) = types237[types237[rpc].parent].unique}

RpcExpansion ==
    LET service == types237[Seed].parent
        alias == types237[service].unique
        reqKey == edgeKey(alias, types237[Seed].name \o rpcSuffixes[1])
        respKey == edgeKey(alias, types237[Seed].name \o rpcSuffixes[2])
    IN /\ ~sel.err
       /\ service \in sel.types
       /\ \A inf \in RequestOf(Seed) \cup ResponseOf(Seed) :
             Reach({inf.fullname}) \subseteq sel.types
       /\ ServiceKeys(sel.inclusions, Seed) = {reqKey, respKey}
       /\ \A inf \in RequestOf(Seed) : DOMAIN sel.inclusions[reqKey] = {inf.unique}
       /\ \A inf \in ResponseOf(Seed) : DOMAIN sel.inclusions[respKey] = {inf.unique}

\* C10 (RPC seed expansion): when the selection is one fragment that matches
\* exactly one RPC method whose request and response are resolved, the result
\* holds the owning service and the request and response entities with their
\* closure, and the edges of the result owned by the service are exactly the
\* method's request edge and response edge, each to its entity.
C10_RpcSeedExpansion ==
    (/\ SeedOfKind("rpc")
     /\ RequestOf(Seed) # {}
     /\ ResponseOf(Seed) # {}) => RpcExpansion

\* no edge of the graph points to a service
NoEdgeToService ==
    \A key \in DOMAIN inclusions : \A to \in DOMAIN inclusions[key] :
        to \in DOMAIN knownNames =>
            /\ knownNames[to] \in DOMAIN types237
            /\ types237[knownNames[to]].typename # "service"

\* the expansion of C10 for the runs in which no edge points to a service and no
\* qualified name was declared twice
RpcSeedExpansionTypedEdges ==
    (/\ SeedOfKind("rpc")
     /\ RequestOf(Seed) # {}
     /\ ResponseOf(Seed) # {}
     /\ NoEdgeToService
     /\ NoRedeclaration) => RpcExpansion

\* a step that declares the current element under a qualified name of the registry
Redeclaration ==
    /\ AtElement("decl")
    /\ Cur.kind \in {"enum", "message", "service"}
    /\ getFullName(Elems, Cur) \in DOMAIN types237
    /\ stack' = Advance

\* C11 (duplicate declaration keeps the first): a declaration whose qualified name
\* is already in the registry does not end the run, and it leaves the registry
\* entry of that name, with its alias, as the first declaration created it; no
\* step changes or removes an entry of the registry.
C11_FirstDeclarationWins ==
    [][/\ Redeclaration =>
            /\ phase' = "run"
            /\ types237'[getFullName(Elems, Cur)].unique
                  = types237[getFullName(Elems, Cur)].unique
       /\ \A t \in DOMAIN types237 : t \in DOMAIN types237' /\ types237'[t] = types237[t]]_vars

\* the short names the files declare: enums, messages, services and RPC methods
DeclaredShortNames ==
    UNION {{files[f][k].name : k \in {x \in DOMAIN files[f] :
                                        files[f][x].kind \in {"enum", "message", "service"}}}
           \cup UNION {{files[f][k].rpcs[n].name : n \in DOMAIN files[f][k].rpcs} :
                         k \in DOMAIN files[f]} :
           f \in DOMAIN files}

\* the run is at a field of handleMessageBody or a request/response of handleServiceBody
BodyCall ==
    /\ AtElement("body")
    /\ Cur.kind \in {"message", "service"}
    /\ Top.j <= Len(Refs(Cur))

\* C12 (unresolved reference is fatal with show-missing-types off): with the mode
\* off, the body step of a field or request/response whose non-scalar type is the
\* name of no declared entity and has no resolution ends the run with a failure,
\* and never goes on with the next reference.
C12_UnresolvedIsFatal ==
    [][(/\ BodyCall
        /\ ~showMissing
        /\ ~isSimpleType(CurRef.type)
        /\ LastComponent(CurRef.type) \notin DeclaredShortNames
        /\ getResolution(CurFull, CurRef.type) = {})
       => (phase' = "panic" /\ stack' # NextRef)]_vars

\* process is called at depth 0 with a file that cannot be opened
RootUnopenable == phase = "start" /\ root \notin DOMAIN files

\* handleImport calls process, at depth > 0, with a new file that cannot be opened
ImportUnopenable ==
    /\ AtElement("decl")
    /\ Cur.kind = "import"
    /\ Cur.file \notin DOMAIN knownFiles
    /\ Cur.file \notin DOMAIN files

\* C13 (missing-import policy): a root file that cannot be opened aborts the run,
\* and so does an import that cannot be opened when allow-missing-imports is off;
\* with the mode on, the import is recorded as a missing file, the visit returns
\* failure, nothing is loaded or declared for it, and the walk goes on with the
\* next element of the importer.
C13_MissingImportPolicy ==
    [][/\ RootUnopenable => phase' = "panic"
       /\ (ImportUnopenable /\ ~allowMissing) =>
             (phase' = "panic" /\ Cur.file \notin DOMAIN knownFiles')
       /\ (ImportUnopenable /\ allowMissing) =>
             /\ phase' = "run"
             /\ Cur.file \in DOMAIN knownFiles'
             /\ knownFiles'[Cur.file].missing
             /\ ret' = FALSE
             /\ loads' = loads
             /\ types237' = types237
             /\ translate' = translate
             /\ stack' = Advance]_vars

\* the run has ended with a file recorded as missing, never loaded, and with a
\* declaration that follows the import of that file in its importer
C13_Witness ==
    /\ phase = "done"
    /\ \E f \in DOMAIN knownFiles :
          /\ knownFiles[f].missing
          /\ f \notin DOMAIN loads
          /\ \E g \in DOMAIN loads : \E k, n \in DOMAIN files[g] :
                /\ k < n
                /\ files[g][k].kind = "import" /\ files[g][k].file = f
                /\ files[g][n].kind = "message"
                /\ getFullName(files[g], files[g][n]) \in DOMAIN types237

\* showSelectedInclusion was called with a selection of fragments
FragmentsSelected ==
    /\ phase \in {"select", "done"}
    /\ selection \notin {<<>>, SelAll, SelImports}

NonEmpty(frag) == frag # <<>>

BySuffix(frag) == {t \in DOMAIN types237 : HasSuffix(t, frag)}

BySubstring(frag) ==
    {t \in DOMAIN types237 : \E a, b \in 0..Len(t) : a <= b /\ SubSeq(t, a + 1, b) = frag}

FragmentMatches(frag) == IF BySuffix(frag) # {} THEN BySuffix(frag) ELSE BySubstring(frag)

\* C14 (selection fragment matching): each non-empty fragment matches the names
\* that end with it, or, when there is none, the names that contain it; when every
\* fragment has exactly one match the seeds are these matches in order, and when a
\* fragment has no match or several, the selection is an error and the result has
\* no entity and no edge.
C14_FragmentMatching ==
    FragmentsSelected =>
        LET frags == SelectSeq(Fragments, NonEmpty)
        IN IF \A k \in 1..Len(frags) : Cardinality(FragmentMatches(frags[k])) = 1
           THEN /\ ~sel.err
                /\ sel.nseeds = Len(frags)
                /\ \A k \in 1..Len(frags) : sel.queued[k] \in FragmentMatches(frags[k])
           ELSE /\ sel.err
                /\ phase = "done"
                /\ sel.types = {}
                /\ DOMAIN sel.inclusions = {}
                /\ sel.queued = <<>>

\* a selection of two fragments has ended in an error although one of the
\* fragments has exactly one match
C14_Witness ==
    /\ FragmentsSelected
    /\ phase = "done"
    /\ sel.err
    /\ Len(SelectSeq(Fragments, NonEmpty)) = 2
    /\ \E k \in 1..2 : Cardinality(FragmentMatches(SelectSeq(Fragments, NonEmpty)[k])) = 1

\* C15 (alias uniqueness): in every state, two calls of getUniqueName that returned
\* the same alias were made with the same (short name, qualified name) pair, and
\* two entries of the registry with the same alias have the same qualified name.
C15_AliasUniqueness ==
    /\ \A i, j \in 1..Len(calls) :
          calls[i].unique = calls[j].unique => SamePair(calls[i], calls[j])
    /\ \A t, u \in DOMAIN types237 : types237[t].unique = types237[u].unique => t = u

\* the run has ended, placeholders were created, and one alias was returned twice
\* (a short name of the form of an alias, declared twice)
C15_Witness ==
    /\ phase = "done"
    /\ \E i, j \in 1..Len(calls) : i < j /\ calls[i].unique = calls[j].unique
    /\ \E t \in DOMAIN types237 : types237[t].typename = "missing"

Registered(alias) == alias \in DOMAIN knownNames /\ knownNames[alias] \in DOMAIN types237

\* C16 (edge well-formedness): in every state, the owner alias of each inclusion
\* edge key maps through the alias table to a qualified name of the registry, and
\* so does each target alias of the edge.
C16_EdgeWellFormed ==
    \A key \in DOMAIN inclusions :
        /\ Registered(AliasOf(key))
        /\ \A to \in DOMAIN inclusions[key] : Registered(to)

\* the run has ended with an edge to a declared entity and an edge to a placeholder
C16_Witness ==
    /\ phase = "done"
    /\ \E key \in DOMAIN inclusions : \E to \in DOMAIN inclusions[key] :
          to \in DOMAIN knownNames /\ knownNames[to] \in Placeholders
    /\ \E key \in DOMAIN inclusions : \E to \in DOMAIN inclusions[key] :
          to \in DOMAIN knownNames /\ knownNames[to] \in DOMAIN types237 \ Placeholders

\* the declared entities a reference of a scope can be bound to under the
\* resolution policy: the one declaration of a bare name, the declarations of a
\* bare name whose namespace is a prefix of the scope, or the declarations that end
\* with a dotted reference and whose remaining prefix is a prefix of the scope
PolicyMatches(scope, ref) ==
    IF IsBare(ref)
    THEN IF ref \in DOMAIN translate /\ Len(translate[ref]) = 1
         THEN {translate[ref][1]}
         ELSE {c \in Candidates(ref) : HasPrefix(scope, NamespaceOf(c))}
    ELSE {c \in Candidates(LastComponent(ref)) :
            HasSuffix(c, ref) /\ HasPrefix(scope, RemainingPrefix(c, ref))}

\* the step is a body step that gives the current field an edge to a placeholder
EdgeToPlaceholder ==
    /\ BodyCall
    /\ stack' = NextRef
    /\ ~isSimpleType(CurRef.type)
    /\ LET key == edgeKey(types237[CurFull].unique, CurRef.field)
       IN /\ key \in DOMAIN inclusions'
          /\ \E to \in DOMAIN inclusions'[key] :
                /\ to \in DOMAIN knownNames'
                /\ knownNames'[to] \in DOMAIN types237'
                /\ types237'[knownNames'[to]].typename = "missing"
                /\ types237'[knownNames'[to]].name = CurRef.type

\* C17 (a placeholder never shadows a declaration): with show-missing-types on, a
\* field gets an edge to a missing placeholder only if no declared entity matches
\* its reference from its scope under the resolution policy, whatever placeholders
\* earlier unresolved uses of the name by other owners or files have created.
C17_NoShadowing ==
    [][(showMissing /\ EdgeToPlaceholder) => PolicyMatches(CurFull, CurRef.type) = {}]_vars

\* C18 (the traversal enqueues each entity at most once): in every state of
\* showSelectedInclusion, no qualified name occurs twice among the names that were
\* appended to the work queue.
C18_EnqueuedOnce ==
    \A i, j \in 1..Len(sel.queued) : sel.queued[i] = sel.queued[j] => i = j

\* the names a step appends to the work queue
Appended == {sel'.queued[k] : k \in (Len(sel.queued) + 1)..Len(sel'.queued)}

\* C18 amended: a step of the traversal appends to the work queue only names
\* that have not been processed, and removing a name that has been processed
\* appends nothing and leaves the selected entities and edges as they are (a name
\* can be appended more than once while it is not yet processed).
C18_NoEnqueueOfProcessed ==
    [][InTraversal =>
          /\ Appended \cap sel'.types = {}
          /\ (sel.matches # <<>> /\ Head(sel.matches) \in sel.types) =>
                /\ Appended = {}
                /\ sel'.matches = Tail(sel.matches)
                /\ sel'.types = sel.types
                /\ sel'.inclusions = sel.inclusions]_vars

\* the selection has ended after a name was appended to the work queue twice
C18_Witness ==
    /\ phase = "done"
    /\ ~sel.err
    /\ \E i, j \in 1..Len(sel.queued) : i < j /\ sel.queued[i] = sel.queued[j]

\* the entities of the registry the traversal has not processed
Unprocessed == DOMAIN types237 \ sel.types

\* C19 (the selection traversal terminates): every step of the traversal loop
\* either processes an entity that was not processed before, and only the head of
\* the queue, or shortens the queue and leaves the result as it is; so the pair
\* (number of unprocessed entities, queue length) decreases in the lexicographic
\* order at every step, the queue becomes empty, and each entity is added to the
\* result and has its edges expanded at most once.
C19_TraversalTerminates ==
    [][(InTraversal /\ phase' = "select") =>
          \/ /\ sel.matches # <<>>
             /\ Head(sel.matches) \in Unprocessed
             /\ sel'.types = sel.types \cup {Head(sel.matches)}
             /\ Cardinality(Unprocessed') < Cardinality(Unprocessed)
          \/ /\ sel'.types = sel.types
             /\ sel'.inclusions = sel.inclusions
             /\ Len(sel'.matches) < Len(sel.matches)]_vars

\* a selection has ended whose result holds two entities that refer to each other
C19_Witness ==
    /\ phase = "done"
    /\ ~sel.err
    /\ \E a, b \in sel.types :
          /\ a # b
          /\ a \in Targets({b})
          /\ b \in Targets({a})
          /\ \E key \in DOMAIN sel.inclusions : OwnerOf(key) = a
          /\ \E key \in DOMAIN sel.inclusions : OwnerOf(key) = b

\* C20 (edge targets are types): in every state, each target of an inclusion edge
\* is an entity of the registry of kind message, enum or missing placeholder,
\* never a service or an rpc.
C20_EdgeTargetsAreTypes ==
    \A key \in DOMAIN inclusions : \A to \in DOMAIN inclusions[key] :
        /\ Registered(to)
        /\ types237[knownNames[to]].typename \in {"message", "enum", "missing"}

\* the qualified names of the enums, messages, services and RPC methods a file declares
DeclaredIn(f) ==
    LET decls == {k \in DOMAIN files[f] : files[f][k].kind \in {"enum", "message", "service"}}
    IN {getFullName(files[f], files[f][k]) : k \in decls}
       \cup UNION {{getFullName(files[f], files[f][k]) \o separator \o files[f][k].rpcs[n].name :
                      n \in DOMAIN files[f][k].rpcs} : k \in decls}

\* the names expandSelection returned to showSelectedInclusion
Seeds == {sel.queued[k] : k \in 1..sel.nseeds}

\* C21 (selection "*" seeds exactly the root file's entities): after
\* expandSelection("*"), the seeds hold every enum, message, service and RPC
\* method the root file declares, and no entity that only an imported file declares.
C21_StarSeedsRootEntities ==
    (phase \in {"select", "done"} /\ selection = SelAll) =>
        /\ ~sel.err
        /\ DeclaredIn(root) \subseteq Seeds
        /\ \A f \in DOMAIN loads \ {root} : Seeds \cap (DeclaredIn(f) \ DeclaredIn(root)) = {}

\* the seeds of "*" without the enums: the messages, services and RPC methods of
\* the root file are seeded, and nothing an imported file alone declares
StarSeedsRootEntitiesButEnums ==
    (phase \in {"select", "done"} /\ selection = SelAll) =>
        /\ ~sel.err
        /\ {t \in DeclaredIn(root) : types237[t].typename # "enum"} \subseteq Seeds
        /\ \A f \in DOMAIN loads \ {root} : Seeds \cap (DeclaredIn(f) \ DeclaredIn(root)) = {}

====
